---- MODULE Spec2Model ----
(***************************************************************************)
(* The calculator's history engine (src/app/history.py,                    *)
(* src/app/calculator_memento.py, src/app/calculation.py) and the          *)
(* Calculator facade with its observer fan-out (src/app/calculator.py).    *)
(*                                                                         *)
(* Every Python method is an operator on values that returns the new       *)
(* object state together with what the call returned or raised; every      *)
(* action is one complete call of a public method.  A float x is held as   *)
(* the integer Scale * x (fixed point, two decimals).                      *)
(***************************************************************************)
EXTENDS Integers, Sequences, FiniteSets, TLC

\* ---------------------------------------------------------------- bounds
MaxCap == 2        \* capacities 1..MaxCap are explored
MaxUndo == 3       \* add_calculation is explored while the undo stack is shorter
MaxAppends == 5    \* consecutive add_calculation calls explored on a fresh store
MaxRows == 2       \* rows of a file written outside the session
MaxObservers == 3  \* length of Calculator._observers explored
MaxLists == 6      \* list objects allocated in the object-level store
MaxRecords == 2    \* Calculation objects allocated in the object-level store
MaxHeld == 1       \* lists a caller holds from get_history

\* ------------------------------------------------------ program constants
Scale == 100       \* fixed point: 10^Precision
Precision == 2     \* CalculatorConfig.precision, the default

VARIABLES
    history,      \* CalculationHistory._history
    undo_stack,   \* HistoryCaretaker._undo_stack (mementos, oldest first)
    redo_stack,   \* HistoryCaretaker._redo_stack
    max_size,     \* CalculationHistory._max_size
    file,         \* the CSV file at the persistence path
    observers,    \* Calculator._observers
    notified,     \* what the last calculate notified: position in observers and what it saw
    ret,          \* the last call: its name, what it raised, what it returned
    fresh_adds,   \* only add_calculation has been called since construction
    appended,     \* while fresh_adds: the records given to add_calculation, in order
    heap,         \* a second CalculationHistory, held as Python objects: its lists
                  \* and Calculation records by identity
    repl          \* the CalculatorREPL: running, and the two texts the latest
                  \* handle_operation read at its prompts

vars == <<history, undo_stack, redo_stack, max_size, file, observers, notified,
          ret, fresh_adds, appended, heap, repl>>

\* The instants datetime.now() is explored at.
Times == {0, 1}

SeqsUpTo(S, n) == UNION {[1..k -> S] : k \in 0..n}

Last(s) == s[Len(s)]

Front(s) == SubSeq(s, 1, Len(s) - 1)

\* ------------------------------------------------------------ Calculation
\* Calculation.__init__: the four arguments and timestamp = datetime.now().
Calculation(operation, operand1, operand2, result, t) ==
    [operation |-> operation, operand1 |-> operand1, operand2 |-> operand2,
     result |-> result, timestamp |-> t]

\* A cell of the table pandas reads or writes: a text, a number, a text that
\* is the ISO-8601 form of instant n, or an empty cell (NaN).
StrCell(s) == [kind |-> "str", s |-> s, n |-> 0]

NumCell(n) == [kind |-> "num", s |-> "", n |-> n]

IsoCell(t) == [kind |-> "iso", s |-> "", n |-> t]

NanCell == [kind |-> "nan", s |-> "", n |-> 0]

\* datetime.isoformat()
isoformat(t) == IsoCell(t)

\* datetime.fromisoformat(x): ValueError on a text that is no ISO-8601
\* timestamp, TypeError on anything that is no text.
fromisoformat(cell) == [ok |-> cell.kind = "iso", value |-> cell.n]

\* float(x): ValueError on a text that is no number.  (An empty cell of a
\* numeric column would give NaN; the files explored hold none.)
float_of(cell) == [ok |-> cell.kind = "num", value |-> cell.n]

\* Calculation.to_dict
to_dict(calc) ==
    [operation |-> StrCell(calc.operation),
     operand1  |-> NumCell(calc.operand1),
     operand2  |-> NumCell(calc.operand2),
     result    |-> NumCell(calc.result),
     timestamp |-> isoformat(calc.timestamp)]

\* Whether Calculation.from_dict(data) returns (rather than raises KeyError,
\* ValueError or TypeError).
from_dict_ok(data) ==
    /\ {"operation", "operand1", "operand2", "result"} \subseteq DOMAIN data
    /\ data.operation.kind = "str"
    /\ float_of(data.operand1).ok
    /\ float_of(data.operand2).ok
    /\ float_of(data.result).ok
    /\ "timestamp" \in DOMAIN data => fromisoformat(data.timestamp).ok

\* from_dict that leaves the timestamp __init__ gave.
from_dict_stamps_now(data, t) ==
    Calculation(data.operation.s,
                float_of(data.operand1).value,
                float_of(data.operand2).value,
                float_of(data.result).value,
                t)

\* Calculation.from_dict(data), called at instant t, when it returns.
from_dict(data, t) ==
    Calculation(data.operation.s,
                float_of(data.operand1).value,
                float_of(data.operand2).value,
                float_of(data.result).value,
                IF "timestamp" \in DOMAIN data
                    THEN fromisoformat(data.timestamp).value
                    ELSE t)

\* ------------------------------------------------------------- mementos
\* CalculatorMemento.__init__: history.copy()
CalculatorMemento(h) == h

\* CalculatorMemento.get_state: self._history.copy()
get_state(memento) == memento

None == [some |-> FALSE, state |-> <<>>]

Some(memento) == [some |-> TRUE, state |-> memento]

\* HistoryCaretaker.__init__
HistoryCaretaker == [undo_stack |-> <<>>, redo_stack |-> <<>>]

\* save_state without the clearing of the redo stack.
save_state_keeps_redo(ct, memento) ==
    [undo_stack |-> Append(ct.undo_stack, memento), redo_stack |-> ct.redo_stack]

\* HistoryCaretaker.save_state
save_state(ct, memento) ==
    [undo_stack |-> Append(ct.undo_stack, memento), redo_stack |-> <<>>]

\* undo that returns the state it popped.
caretaker_undo_returns_popped(ct) ==
    IF Len(ct.undo_stack) < 2
        THEN [ct |-> ct, memento |-> None]
        ELSE LET current_state == Last(ct.undo_stack)
             IN  [ct |-> [undo_stack |-> Front(ct.undo_stack),
                          redo_stack |-> Append(ct.redo_stack, current_state)],
                  memento |-> Some(current_state)]

\* undo that is content with one state on the stack.
caretaker_undo_to_nothing(ct) ==
    IF Len(ct.undo_stack) < 1
        THEN [ct |-> ct, memento |-> None]
        ELSE LET current_state == Last(ct.undo_stack)
                 popped == Front(ct.undo_stack)
             IN  [ct |-> [undo_stack |-> popped,
                          redo_stack |-> Append(ct.redo_stack, current_state)],
                  memento |-> IF popped # <<>> THEN Some(Last(popped)) ELSE None]

\* undo that drops the state it pops instead of keeping it for redo.
caretaker_undo_discards(ct) ==
    IF Len(ct.undo_stack) < 2
        THEN [ct |-> ct, memento |-> None]
        ELSE LET popped == Front(ct.undo_stack)
             IN  [ct |-> [undo_stack |-> popped, redo_stack |-> ct.redo_stack],
                  memento |-> IF popped # <<>> THEN Some(Last(popped)) ELSE None]

\* undo that reads the top state where it should pop it.
caretaker_undo_keeps_top(ct) ==
    IF Len(ct.undo_stack) < 2
        THEN [ct |-> ct, memento |-> None]
        ELSE [ct |-> [undo_stack |-> ct.undo_stack,
                      redo_stack |-> Append(ct.redo_stack, Last(ct.undo_stack))],
              memento |-> Some(Last(Front(ct.undo_stack)))]

\* HistoryCaretaker.undo: the caretaker afterwards and the memento returned.
caretaker_undo(ct) ==
    IF Len(ct.undo_stack) < 2
        THEN [ct |-> ct, memento |-> None]
        ELSE LET current_state == Last(ct.undo_stack)
                 popped == Front(ct.undo_stack)
             IN  [ct |-> [undo_stack |-> popped,
                          redo_stack |-> Append(ct.redo_stack, current_state)],
                  memento |-> IF popped # <<>> THEN Some(Last(popped)) ELSE None]

\* redo that returns the state that was on top before the push.
caretaker_redo_stale(ct) ==
    IF ct.redo_stack = <<>>
        THEN [ct |-> ct, memento |-> None]
        ELSE LET next_state == Last(ct.redo_stack)
             IN  [ct |-> [undo_stack |-> Append(ct.undo_stack, next_state),
                          redo_stack |-> Front(ct.redo_stack)],
                  memento |-> Some(Last(ct.undo_stack))]

\* redo that takes the state undone first.
caretaker_redo_oldest(ct) ==
    IF ct.redo_stack = <<>>
        THEN [ct |-> ct, memento |-> None]
        ELSE LET next_state == Head(ct.redo_stack)
             IN  [ct |-> [undo_stack |-> Append(ct.undo_stack, next_state),
                          redo_stack |-> Tail(ct.redo_stack)],
                  memento |-> Some(next_state)]

\* redo that replays the current state when nothing was undone.
caretaker_redo_repeats(ct) ==
    LET next_state == IF ct.redo_stack = <<>> THEN Last(ct.undo_stack)
                      ELSE Last(ct.redo_stack)
    IN  [ct |-> [undo_stack |-> Append(ct.undo_stack, next_state),
                 redo_stack |-> IF ct.redo_stack = <<>> THEN <<>>
                                ELSE Front(ct.redo_stack)],
         memento |-> Some(next_state)]

\* HistoryCaretaker.redo
caretaker_redo(ct) ==
    IF ct.redo_stack = <<>>
        THEN [ct |-> ct, memento |-> None]
        ELSE LET next_state == Last(ct.redo_stack)
             IN  [ct |-> [undo_stack |-> Append(ct.undo_stack, next_state),
                          redo_stack |-> Front(ct.redo_stack)],
                  memento |-> Some(next_state)]

\* can_undo that is content with one state on the stack.
caretaker_can_undo_any(ct) == Len(ct.undo_stack) > 0

\* HistoryCaretaker.can_undo
caretaker_can_undo(ct) == Len(ct.undo_stack) > 1

\* HistoryCaretaker.can_redo
caretaker_can_redo(ct) == Len(ct.redo_stack) > 0

\* HistoryCaretaker.clear
caretaker_clear(ct) == [undo_stack |-> <<>>, redo_stack |-> <<>>]

\* ----------------------------------------------------- CalculationHistory
\* CalculationHistory.__init__
CalculationHistory(size) ==
    [history |-> <<>>,
     max_size |-> size,
     caretaker |-> save_state(HistoryCaretaker, CalculatorMemento(<<>>))]

\* add_calculation that checkpoints before it enforces the capacity.
add_calculation_snapshots_first(self, calculation) ==
    LET grown == Append(self.history, calculation)
        kept == IF Len(grown) > self.max_size THEN Tail(grown) ELSE grown
    IN  [self EXCEPT !.history = kept,
                     !.caretaker = save_state(self.caretaker, CalculatorMemento(grown))]

\* add_calculation that evicts with pop() instead of pop(0).
add_calculation_evicts_newest(self, calculation) ==
    LET grown == Append(self.history, calculation)
        kept == IF Len(grown) > self.max_size THEN Front(grown) ELSE grown
    IN  [self EXCEPT !.history = kept,
                     !.caretaker = save_state(self.caretaker, CalculatorMemento(kept))]

\* add_calculation that keeps no more snapshots than the capacity allows
\* entries (the empty first state apart).
add_calculation_bounds_snapshots(self, calculation) ==
    LET grown == Append(self.history, calculation)
        kept == IF Len(grown) > self.max_size THEN Tail(grown) ELSE grown
        saved == save_state(self.caretaker, CalculatorMemento(kept))
    IN  [self EXCEPT !.history = kept,
                     !.caretaker = IF Len(saved.undo_stack) > self.max_size + 1
                                       THEN [saved EXCEPT !.undo_stack = Tail(@)]
                                       ELSE saved]

\* CalculationHistory.add_calculation
add_calculation(self, calculation) ==
    LET grown == Append(self.history, calculation)
        kept == IF Len(grown) > self.max_size THEN Tail(grown) ELSE grown
    IN  [self EXCEPT !.history = kept,
                     !.caretaker = save_state(self.caretaker, CalculatorMemento(kept))]

\* clear_history without the checkpoint of the emptied entries.
clear_history_no_checkpoint(self) ==
    [self EXCEPT !.history = <<>>, !.caretaker = caretaker_clear(self.caretaker)]

\* clear_history without the reset of the caretaker.
clear_history_keeps_stacks(self) ==
    [self EXCEPT !.history = <<>>,
                 !.caretaker = save_state(self.caretaker, CalculatorMemento(<<>>))]

\* CalculationHistory.clear_history
clear_history(self) ==
    [self EXCEPT !.history = <<>>,
                 !.caretaker = save_state(caretaker_clear(self.caretaker),
                                          CalculatorMemento(<<>>))]

\* CalculationHistory.can_undo
can_undo(self) == caretaker_can_undo(self.caretaker)

\* CalculationHistory.can_redo
can_redo(self) == caretaker_can_redo(self.caretaker)

\* CalculationHistory.undo: the store afterwards and the boolean returned.
undo(self) ==
    IF ~can_undo(self)
        THEN [self |-> self, result |-> FALSE]
        ELSE LET r == caretaker_undo(self.caretaker)
             IN  IF ~r.memento.some
                     THEN [self |-> [self EXCEPT !.caretaker = r.ct], result |-> FALSE]
                     ELSE [self |-> [self EXCEPT !.caretaker = r.ct,
                                                 !.history = get_state(r.memento.state)],
                           result |-> TRUE]

\* CalculationHistory.redo
redo(self) ==
    IF ~can_redo(self)
        THEN [self |-> self, result |-> FALSE]
        ELSE LET r == caretaker_redo(self.caretaker)
             IN  IF ~r.memento.some
                     THEN [self |-> [self EXCEPT !.caretaker = r.ct], result |-> FALSE]
                     ELSE [self |-> [self EXCEPT !.caretaker = r.ct,
                                                 !.history = get_state(r.memento.state)],
                           result |-> TRUE]

\* CalculationHistory.get_history: the store afterwards and the copy of
\* _history returned.
get_history(self) == [self |-> self, result |-> self.history]

\* get_last_calculation that takes the newest entry off with pop().
get_last_calculation_pops(self) ==
    IF self.history # <<>>
        THEN [self |-> [self EXCEPT !.history = Front(self.history)],
              result |-> Some(Last(self.history))]
        ELSE [self |-> self, result |-> None]

\* CalculationHistory.get_last_calculation: self._history[-1], or None for
\* an empty history.
get_last_calculation(self) ==
    IF self.history # <<>>
        THEN [self |-> self, result |-> Some(Last(self.history))]
        ELSE [self |-> self, result |-> None]

\* CalculationHistory.__len__
len(self) == [self |-> self, result |-> Len(self.history)]

\* ------------------------------------------------------------ persistence
\* The columns DataFrame(data) gets from to_dict's keys, in order.
Header == <<"operation", "operand1", "operand2", "result", "timestamp">>

NoFile == [kind |-> "missing", header |-> <<>>, rows |-> <<>>]

\* A file pandas.read_csv cannot parse (an empty file: EmptyDataError).
GarbageFile == [kind |-> "garbage", header |-> <<>>, rows |-> <<>>]

Table(header, rows) == [kind |-> "table", header |-> header, rows |-> rows]

\* save_to_csv that writes the newest entry first.
save_to_csv_newest_first(self, f, writable) ==
    IF self.history = <<>>
        THEN [raised |-> "HistoryError", message |-> "No history to save", file |-> f]
        ELSE IF ~writable
            THEN [raised |-> "HistoryError", message |-> "Failed to save history",
                  file |-> f]
            ELSE [raised |-> "none", message |-> "",
                  file |-> Table(Header, [i \in 1..Len(self.history) |->
                                    to_dict(self.history[Len(self.history) + 1 - i])])]

\* save_to_csv that writes the header alone for an empty history.
save_to_csv_writes_header(self, f, writable) ==
    IF ~writable
        THEN [raised |-> "HistoryError", message |-> "Failed to save history", file |-> f]
        ELSE [raised |-> "none", message |-> "",
              file |-> Table(Header, [i \in 1..Len(self.history) |->
                                          to_dict(self.history[i])])]

\* CalculationHistory.save_to_csv: what is raised, with its message, and the
\* file afterwards; writable says whether DataFrame.to_csv can write the path.
save_to_csv(self, f, writable) ==
    IF self.history = <<>>
        THEN [raised |-> "HistoryError", message |-> "No history to save", file |-> f]
        ELSE IF ~writable
            THEN [raised |-> "HistoryError", message |-> "Failed to save history",
                  file |-> f]
            ELSE [raised |-> "none", message |-> "",
                  file |-> Table(Header, [i \in 1..Len(self.history) |->
                                              to_dict(self.history[i])])]

\* The first row from_dict raises on, 0 when there is none.
FirstBadRow(rows) ==
    IF \A i \in 1..Len(rows) : from_dict_ok(rows[i])
        THEN 0
        ELSE CHOOSE i \in 1..Len(rows) :
                 /\ ~from_dict_ok(rows[i])
                 /\ \A j \in 1..(i - 1) : from_dict_ok(rows[j])

\* load_from_csv without the caretaker.clear() before the checkpoint.
load_from_csv_keeps_stacks(self, f, t) ==
    IF f.kind = "missing"
        THEN [self |-> self, raised |-> "HistoryError",
              message |-> "History file not found"]
    ELSE IF f.kind = "garbage"
        THEN [self |-> self, raised |-> "HistoryError",
              message |-> "Failed to load history"]
    ELSE LET bad == FirstBadRow(f.rows)
             upto == IF bad = 0 THEN Len(f.rows) ELSE bad - 1
             loaded == [i \in 1..upto |-> from_dict(f.rows[i], t)]
         IN  IF bad # 0
                 THEN [self |-> [self EXCEPT !.history = loaded],
                       raised |-> "HistoryError", message |-> "Failed to load history"]
                 ELSE [self |-> [self EXCEPT
                                    !.history = loaded,
                                    !.caretaker = save_state(self.caretaker,
                                                             CalculatorMemento(loaded))],
                       raised |-> "none", message |-> ""]

\* load_from_csv that empties _history before it looks for the file.
load_from_csv_clears_first(self, f, t) ==
    IF f.kind = "missing"
        THEN [self |-> [self EXCEPT !.history = <<>>], raised |-> "HistoryError",
              message |-> "History file not found"]
    ELSE IF f.kind = "garbage"
        THEN [self |-> [self EXCEPT !.history = <<>>], raised |-> "HistoryError",
              message |-> "Failed to load history"]
    ELSE LET bad == FirstBadRow(f.rows)
             upto == IF bad = 0 THEN Len(f.rows) ELSE bad - 1
             loaded == [i \in 1..upto |-> from_dict(f.rows[i], t)]
         IN  IF bad # 0
                 THEN [self |-> [self EXCEPT !.history = loaded],
                       raised |-> "HistoryError", message |-> "Failed to load history"]
                 ELSE [self |-> [self EXCEPT
                                    !.history = loaded,
                                    !.caretaker = save_state(caretaker_clear(self.caretaker),
                                                             CalculatorMemento(loaded))],
                       raised |-> "none", message |-> ""]

\* CalculationHistory.load_from_csv at instant t: the store afterwards and
\* what is raised, with its message.  _history is cleared and refilled in
\* place, row by row, before the caretaker is touched.
load_from_csv(self, f, t) ==
    IF f.kind = "missing"
        THEN [self |-> self, raised |-> "HistoryError",
              message |-> "History file not found"]
    ELSE IF f.kind = "garbage"
        THEN [self |-> self, raised |-> "HistoryError",
              message |-> "Failed to load history"]
    ELSE LET bad == FirstBadRow(f.rows)
             upto == IF bad = 0 THEN Len(f.rows) ELSE bad - 1
             loaded == [i \in 1..upto |-> from_dict(f.rows[i], t)]
         IN  IF bad # 0
                 THEN [self |-> [self EXCEPT !.history = loaded],
                       raised |-> "HistoryError", message |-> "Failed to load history"]
                 ELSE [self |-> [self EXCEPT
                                    !.history = loaded,
                                    !.caretaker = save_state(caretaker_clear(self.caretaker),
                                                             CalculatorMemento(loaded))],
                       raised |-> "none", message |-> ""]

\* ------------------------------------------------------------ operations
\* OperationFactory._operations: the names create_operation knows.
Operations ==
    {"add", "subtract", "multiply", "divide", "power", "root", "modulus",
     "int_divide", "percent", "abs_diff"}

\* floor(a / b) of integers, b # 0 (Python's // and % round to minus infinity).
FloorDiv(a, b) == IF b > 0 THEN a \div b ELSE (0 - a) \div (0 - b)

RECURSIVE Pow(_, _)
\* x ** n for a whole n >= 0
Pow(x, n) == IF n = 0 THEN 1 ELSE x * Pow(x, n - 1)

\* What execute leaves: the exception raised ("none": it returned), its
\* message, and the exact result as the fraction num/den (den > 0) in
\* units of 1/Scale.
Raises(exception, message) ==
    [raised |-> exception, message |-> message, num |-> 0, den |-> 1]

Returns(num, den) ==
    [raised |-> "none", message |-> "",
     num |-> IF den < 0 THEN 0 - num ELSE num,
     den |-> IF den < 0 THEN 0 - den ELSE den]

\* The multiple of 1/Scale nearest to the n-th root of a/Scale, a >= 0 and
\* n >= 1 whole: a ** (1 / n), exact when the root is a multiple of 1/Scale.
NthRoot(a, n) ==
    CHOOSE r \in 0..(a + Scale) :
        /\ r = 0 \/ Pow(2 * r - 1, n) <= Pow(2, n) * a * Pow(Scale, n - 1)
        /\ Pow(2 * r + 1, n) > Pow(2, n) * a * Pow(Scale, n - 1)

\* Operation.execute on fixed-point operands.  The exponents of power and
\* root explored are whole numbers, b = Scale * n, and those of root of a
\* positive number are positive.
execute(name, a, b) ==
    CASE name = "add"      -> Returns(a + b, 1)
      [] name = "subtract" -> Returns(a - b, 1)
      [] name = "multiply" -> Returns(a * b, Scale)
      [] name = "divide"   ->
            IF b = 0 THEN Raises("OperationError", "Cannot divide by zero")
            ELSE Returns(Scale * a, b)
      [] name = "power"    ->
            LET n == b \div Scale
            IN  IF n >= 0 THEN Returns(Pow(a, n) * Scale, Pow(Scale, n))
                ELSE IF a = 0
                    THEN Raises("ZeroDivisionError", "0.0 cannot be raised to a negative power")
                    ELSE Returns(Pow(Scale, (0 - n) + 1), Pow(a, 0 - n))
      [] name = "root"     ->
            IF b = 0 THEN Raises("OperationError", "Cannot calculate 0th root")
            ELSE IF a < 0 /\ b % (2 * Scale) = 0
                THEN Raises("OperationError", "Cannot calculate even root of negative number")
            ELSE IF a < 0
                \* a complex number comes back, which round() rejects
                THEN Raises("TypeError", "type complex doesn't define __round__ method")
            ELSE IF a = 0 /\ b < 0
                THEN Raises("ZeroDivisionError", "0.0 cannot be raised to a negative power")
            ELSE Returns(NthRoot(a, b \div Scale), 1)
      [] name = "modulus"  ->
            IF b = 0 THEN Raises("OperationError", "Cannot perform modulus with zero")
            ELSE Returns(a - b * FloorDiv(a, b), 1)
      [] name = "int_divide" ->
            IF b = 0 THEN Raises("OperationError", "Cannot divide by zero")
            ELSE Returns(Scale * FloorDiv(a, b), 1)
      [] name = "percent"  ->
            IF b = 0
                THEN Raises("OperationError", "Cannot calculate percentage with zero denominator")
            ELSE Returns(100 * Scale * a, b)
      [] name = "abs_diff" -> Returns(IF a - b < 0 THEN b - a ELSE a - b, 1)

\* round(x, Precision) of x = num/den (den > 0) in units of 1/Scale, that is
\* to the nearest integer, a tie going to the even one.
round(num, den) ==
    LET q == num \div den
        twice == 2 * (num - q * den)
    IN  IF twice < den THEN q
        ELSE IF twice > den THEN q + 1
        ELSE IF q % 2 = 0 THEN q ELSE q + 1

\* --------------------------------------------------------------- observers
\* The observers explored: the two Calculator._setup_observers registers, a
\* recording one (tests/test_calculator.py) and one whose update() raises.
ObserverPool == {"logging", "autosave", "recording", "raising"}

\* Whether observer.update(calculation) raises: LoggingObserver logs,
\* AutoSaveObserver catches whatever save_to_csv raises.
update_raises(observer) == observer = "raising"

\* update without the try around the save.
update_unguarded(observer, self, calculation, f, writable) ==
    IF observer = "autosave"
        THEN LET saved == save_to_csv(self, f, writable)
             IN  [raised |-> saved.raised # "none", file |-> saved.file]
        ELSE [raised |-> update_raises(observer), file |-> f]

\* update of an auto-save observer that does not save.
update_never_saves(observer, self, calculation, f, writable) ==
    [raised |-> update_raises(observer), file |-> f]

\* observer.update(calculation) with the history store as it is then:
\* whether it raises and the file at the auto-save path afterwards.
\* AutoSaveObserver.update saves the history and catches what that raises.
update(observer, self, calculation, f, writable) ==
    IF observer = "autosave"
        THEN [raised |-> FALSE, file |-> save_to_csv(self, f, writable).file]
        ELSE [raised |-> update_raises(observer), file |-> f]

\* What the observer at position at is given and finds when its update
\* starts: the record, the live entries and the top undo snapshot.
Notification(at, self, calculation) ==
    [at |-> at, calculation |-> calculation, history |-> self.history,
     top |-> Last(self.caretaker.undo_stack)]

\* The loop that notifies the last observer first.
RECURSIVE notify_backwards(_, _, _, _, _, _)
notify_backwards(obs, i, self, calculation, f, writable) ==
    IF i > Len(obs)
        THEN [notified |-> <<>>, raised |-> FALSE, file |-> f]
        ELSE LET at == Len(obs) + 1 - i
                 u == update(obs[at], self, calculation, f, writable)
                 rest == notify_backwards(obs, i + 1, self, calculation, u.file, writable)
             IN  IF u.raised
                     THEN [notified |-> <<Notification(at, self, calculation)>>,
                           raised |-> TRUE, file |-> u.file]
                     ELSE [notified |-> <<Notification(at, self, calculation)>>
                                            \o rest.notified,
                           raised |-> rest.raised, file |-> rest.file]

\* The loop of Calculator._notify_observers from position i on: one update
\* after the other, left at the first that raises.
RECURSIVE notify_from(_, _, _, _, _, _)
notify_from(obs, i, self, calculation, f, writable) ==
    IF i > Len(obs)
        THEN [notified |-> <<>>, raised |-> FALSE, file |-> f]
        ELSE LET u == update(obs[i], self, calculation, f, writable)
                 rest == notify_from(obs, i + 1, self, calculation, u.file, writable)
             IN  IF u.raised
                     THEN [notified |-> <<Notification(i, self, calculation)>>,
                           raised |-> TRUE, file |-> u.file]
                     ELSE [notified |-> <<Notification(i, self, calculation)>>
                                            \o rest.notified,
                           raised |-> rest.raised, file |-> rest.file]

\* _notify_observers over reversed(self._observers).
notify_observers_backwards(obs, self, calculation, f, writable) ==
    notify_backwards(obs, 1, self, calculation, f, writable)

\* Calculator._notify_observers with the history store as it is then: the
\* notifications made, in order, whether the loop was left by an exception,
\* and the file the auto-save observers leave.
notify_observers(obs, self, calculation, f, writable) ==
    notify_from(obs, 1, self, calculation, f, writable)

\* calculate that notifies the observers before it adds to the history.
calculate_notifies_first(self, obs, f, operation, operand1, operand2, t, writable) ==
    LET failed(message) ==
            [self |-> self, file |-> f, notified |-> <<>>,
             raised |-> "OperationError", message |-> message, value |-> 0]
    IN  IF operation \notin Operations THEN failed("Unknown operation")
        ELSE LET r == execute(operation, operand1, operand2)
             IN  IF r.raised = "OperationError" THEN failed(r.message)
                 ELSE IF r.raised # "none" THEN failed("Calculation failed")
                 ELSE LET result == round(r.num, r.den)
                          calculation == Calculation(operation, operand1, operand2, result, t)
                          n == notify_observers(obs, self, calculation, f, writable)
                          added == add_calculation(self, calculation)
                      IN  [self |-> IF n.raised THEN self ELSE added,
                           file |-> n.file, notified |-> n.notified,
                           raised |-> IF n.raised THEN "OperationError" ELSE "none",
                           message |-> IF n.raised THEN "Calculation failed" ELSE "",
                           value |-> IF n.raised THEN 0 ELSE result]

\* calculate that records the operands before the operation is executed.
calculate_records_first(self, obs, f, operation, operand1, operand2, t, writable) ==
    LET pending == add_calculation(self, Calculation(operation, operand1, operand2, 0, t))
        failed(message) ==
            [self |-> pending, file |-> f, notified |-> <<>>,
             raised |-> "OperationError", message |-> message, value |-> 0]
    IN  IF operation \notin Operations THEN failed("Unknown operation")
        ELSE LET r == execute(operation, operand1, operand2)
             IN  IF r.raised = "OperationError" THEN failed(r.message)
                 ELSE IF r.raised # "none" THEN failed("Calculation failed")
                 ELSE LET result == round(r.num, r.den)
                          calculation == Calculation(operation, operand1, operand2, result, t)
                          added == add_calculation(self, calculation)
                          n == notify_observers(obs, added, calculation, f, writable)
                      IN  [self |-> added, file |-> n.file, notified |-> n.notified,
                           raised |-> IF n.raised THEN "OperationError" ELSE "none",
                           message |-> IF n.raised THEN "Calculation failed" ELSE "",
                           value |-> IF n.raised THEN 0 ELSE result]

\* calculate that takes the record back when an observer's update raises.
calculate_rolls_back(self, obs, f, operation, operand1, operand2, t, writable) ==
    LET failed(message) ==
            [self |-> self, file |-> f, notified |-> <<>>,
             raised |-> "OperationError", message |-> message, value |-> 0]
    IN  IF operation \notin Operations THEN failed("Unknown operation")
        ELSE LET r == execute(operation, operand1, operand2)
             IN  IF r.raised = "OperationError" THEN failed(r.message)
                 ELSE IF r.raised # "none" THEN failed("Calculation failed")
                 ELSE LET result == round(r.num, r.den)
                          calculation == Calculation(operation, operand1, operand2, result, t)
                          added == add_calculation(self, calculation)
                          n == notify_observers(obs, added, calculation, f, writable)
                      IN  [self |-> IF n.raised THEN self ELSE added,
                           file |-> n.file, notified |-> n.notified,
                           raised |-> IF n.raised THEN "OperationError" ELSE "none",
                           message |-> IF n.raised THEN "Calculation failed" ELSE "",
                           value |-> IF n.raised THEN 0 ELSE result]

\* calculate that notifies the observers of a failed operation as well.
calculate_always_notifies(self, obs, f, operation, operand1, operand2, t, writable) ==
    LET failed(message) ==
            LET n == notify_observers(obs, self,
                                      Calculation(operation, operand1, operand2, 0, t),
                                      f, writable)
            IN  [self |-> self, file |-> n.file, notified |-> n.notified,
                 raised |-> "OperationError", message |-> message, value |-> 0]
    IN  IF operation \notin Operations THEN failed("Unknown operation")
        ELSE LET r == execute(operation, operand1, operand2)
             IN  IF r.raised = "OperationError" THEN failed(r.message)
                 ELSE IF r.raised # "none" THEN failed("Calculation failed")
                 ELSE LET result == round(r.num, r.den)
                          calculation == Calculation(operation, operand1, operand2, result, t)
                          added == add_calculation(self, calculation)
                          n == notify_observers(obs, added, calculation, f, writable)
                      IN  [self |-> added, file |-> n.file, notified |-> n.notified,
                           raised |-> IF n.raised THEN "OperationError" ELSE "none",
                           message |-> IF n.raised THEN "Calculation failed" ELSE "",
                           value |-> IF n.raised THEN 0 ELSE result]

\* Calculator.calculate at instant t: the store, the file and the positions
\* notified afterwards, what is raised with its message, or the value
\* returned.  An OperationError passes as it is; any other exception becomes
\* OperationError("Calculation failed: ...").
calculate(self, obs, f, operation, operand1, operand2, t, writable) ==
    LET failed(message) ==
            [self |-> self, file |-> f, notified |-> <<>>,
             raised |-> "OperationError", message |-> message, value |-> 0]
    IN  IF operation \notin Operations THEN failed("Unknown operation")
        ELSE LET r == execute(operation, operand1, operand2)
             IN  IF r.raised = "OperationError" THEN failed(r.message)
                 ELSE IF r.raised # "none" THEN failed("Calculation failed")
                 ELSE LET result == round(r.num, r.den)
                          calculation == Calculation(operation, operand1, operand2, result, t)
                          added == add_calculation(self, calculation)
                          n == notify_observers(obs, added, calculation, f, writable)
                      IN  [self |-> added, file |-> n.file, notified |-> n.notified,
                           raised |-> IF n.raised THEN "OperationError" ELSE "none",
                           message |-> IF n.raised THEN "Calculation failed" ELSE "",
                           value |-> IF n.raised THEN 0 ELSE result]

\* remove that drops the entry registered last.
remove_observer_pops(obs, observer) == Front(obs)

\* list.remove(observer): the first occurrence goes.
remove_observer(obs, observer) ==
    LET at == CHOOSE i \in 1..Len(obs) :
                  obs[i] = observer /\ \A j \in 1..(i - 1) : obs[j] # observer
    IN  SubSeq(obs, 1, at - 1) \o SubSeq(obs, at + 1, Len(obs))

\* ------------------------------------------------------- the input boundary
\* A float as float(text) reads it: not a number (ValueError), an infinity,
\* or sign * mantissa * 10^exponent with one decimal digit of mantissa.
Unparsed == [raised |-> TRUE, kind |-> "none", sign |-> 1, mantissa |-> 0, exponent |-> 0]

Finite(sign, mantissa, exponent) ==
    [raised |-> FALSE, kind |-> "finite", sign |-> sign, mantissa |-> mantissa,
     exponent |-> exponent]

Infinity(sign) ==
    [raised |-> FALSE, kind |-> "inf", sign |-> sign, mantissa |-> 0, exponent |-> 0]

\* The texts typed at the two prompts of handle_operation.
Texts == {"1", "0", "abc", "-1e11", "inf"}

\* float(value) of a typed text.
float_str(value) ==
    CASE value = "0" -> Finite(1, 0, 0)
      [] value = "1" -> Finite(1, 1, 0)
      [] value = "-1e11" -> Finite(0 - 1, 1, 11)
      [] value = "inf" -> Infinity(1)
      [] OTHER -> Unparsed

\* config.max_input_value: 1e10 unless the environment sets another.
max_input_value == Finite(1, 1, 10)

\* abs(num) > max_value, for a max_value above zero.
abs_exceeds(num, max_value) ==
    \/ num.kind = "inf"
    \/ /\ num.kind = "finite"
       /\ num.mantissa # 0
       /\ \/ num.exponent > max_value.exponent
          \/ num.exponent = max_value.exponent /\ num.mantissa > max_value.mantissa

\* The operand calculate is given for a float within the limit.
operand_of(num) == num.sign * num.mantissa * Pow(10, num.exponent) * Scale

\* A validator that turns what it rejects into 0.0.
validate_number_defaults(value, max_value) ==
    LET num == float_str(value)
    IN  IF num.raised \/ abs_exceeds(num, max_value)
            THEN [raised |-> "none", message |-> "", num |-> Finite(1, 0, 0)]
            ELSE [raised |-> "none", message |-> "", num |-> num]

\* InputValidator.validate_number with a max_value.
validate_number(value, max_value) ==
    LET num == float_str(value)
    IN  IF num.raised
            THEN [raised |-> "ValidationError", message |-> "Invalid number", num |-> num]
        ELSE IF abs_exceeds(num, max_value)
            THEN [raised |-> "ValidationError", message |-> "exceeds maximum allowed value",
                  num |-> num]
        ELSE [raised |-> "none", message |-> "", num |-> num]

\* InputValidator.validate_operands: operand1 first, operand2 only after it.
validate_operands(operand1, operand2, max_value) ==
    LET a == validate_number(operand1, max_value)
        b == validate_number(operand2, max_value)
    IN  IF a.raised # "none" THEN [raised |-> a.raised, message |-> a.message, a |-> a.num, b |-> a.num]
        ELSE IF b.raised # "none" THEN [raised |-> b.raised, message |-> b.message, a |-> a.num, b |-> b.num]
        ELSE [raised |-> "none", message |-> "", a |-> a.num, b |-> b.num]

\* CalculatorREPL.__init__
CalculatorREPL == [running |-> TRUE, typed |-> <<>>]

\* CalculatorREPL.handle_operation with the two texts read at its prompts:
\* the store, the file and the notifications it leaves and the line it
\* prints.  It catches ValidationError, OperationError and Exception, so
\* nothing it calls raises through it.
handle_operation(self, obs, f, operation, operand1, operand2, t, writable) ==
    LET v == validate_operands(operand1, operand2, max_input_value)
    IN  IF v.raised # "none"
            THEN [self |-> self, file |-> f, notified |-> <<>>,
                  printed |-> "Validation Error", message |-> v.message]
            ELSE LET r == calculate(self, obs, f, operation, operand_of(v.a),
                                    operand_of(v.b), t, writable)
                 IN  [self |-> r.self, file |-> r.file, notified |-> r.notified,
                      printed |-> IF r.raised = "none" THEN "Result" ELSE "Operation Error",
                      message |-> r.message]

\* ------------------------------------------------- the store as objects
\* A CalculationHistory with its lists and Calculation objects held by
\* identity: lists[id] is the content of list object id (record ids),
\* records[id] the fields of Calculation object id; live is the list
\* _history refers to, undo and redo are the lists inside the mementos on
\* the caretaker's stacks, held the lists a caller got from get_history.

\* list.copy(): a new list object with the same elements.
list_copy(h, id) ==
    [h |-> [h EXCEPT !.lists = Append(h.lists, h.lists[id])],
     id |-> Len(h.lists) + 1]

\* CalculatorMemento.__init__ that keeps the list it is given.
obj_CalculatorMemento_aliases(h, id) == [h |-> h, id |-> id]

\* CalculatorMemento.__init__: self._history = history.copy()
obj_CalculatorMemento(h, id) == list_copy(h, id)

\* get_state that hands out the memento's own list.
obj_get_state_aliases(h, memento) == [h |-> h, id |-> memento]

\* CalculatorMemento.get_state: return self._history.copy()
obj_get_state(h, memento) == list_copy(h, memento)

\* HistoryCaretaker.save_state
obj_save_state(h, memento) ==
    [h EXCEPT !.undo = Append(h.undo, memento), !.redo = <<>>]

\* save_state(CalculatorMemento(self._history))
obj_checkpoint(h) ==
    LET m == obj_CalculatorMemento(h, h.live)
    IN  obj_save_state(m.h, m.id)

\* CalculationHistory.__init__
obj_CalculationHistory(size) ==
    obj_checkpoint([lists |-> <<<<>>>>, records |-> <<>>, live |-> 1,
                    undo |-> <<>>, redo |-> <<>>, held |-> <<>>, max_size |-> size])

\* CalculationHistory.add_calculation of a Calculation object just made:
\* append and pop(0) change the live list in place.
obj_add_calculation(h, calculation) ==
    LET made == [h EXCEPT !.records = Append(h.records, calculation)]
        record == Len(made.records)
        grown == Append(made.lists[made.live], record)
        kept == IF Len(grown) > made.max_size THEN Tail(grown) ELSE grown
    IN  obj_checkpoint([made EXCEPT !.lists[made.live] = kept])

\* CalculationHistory.clear_history: _history.clear() in place.
obj_clear_history(h) ==
    obj_checkpoint([h EXCEPT !.lists[h.live] = <<>>, !.undo = <<>>, !.redo = <<>>])

\* CalculationHistory.undo: _history becomes the list get_state returns.
obj_undo(h) ==
    IF Len(h.undo) < 2
        THEN [h |-> h, result |-> FALSE]
        ELSE LET moved == [h EXCEPT !.undo = Front(h.undo),
                                    !.redo = Append(h.redo, Last(h.undo))]
                 state == obj_get_state(moved, Last(moved.undo))
             IN  [h |-> [state.h EXCEPT !.live = state.id], result |-> TRUE]

\* CalculationHistory.redo
obj_redo(h) ==
    IF h.redo = <<>>
        THEN [h |-> h, result |-> FALSE]
        ELSE LET moved == [h EXCEPT !.undo = Append(h.undo, Last(h.redo)),
                                    !.redo = Front(h.redo)]
                 state == obj_get_state(moved, Last(moved.undo))
             IN  [h |-> [state.h EXCEPT !.live = state.id], result |-> TRUE]

\* get_history that returns the live list itself.
obj_get_history_aliases(h) == [h EXCEPT !.held = Append(h.held, h.live)]

\* CalculationHistory.get_history: return self._history.copy()
obj_get_history(h) ==
    LET c == list_copy(h, h.live)
    IN  [c.h EXCEPT !.held = Append(c.h.held, c.id)]

\* load_from_csv of the rows from position i on: from_dict makes a new
\* Calculation object of each row and it is appended to the live list; the
\* loop is left at the first row from_dict raises on.
RECURSIVE obj_load_rows(_, _, _, _)
obj_load_rows(h, rows, i, t) ==
    IF i > Len(rows) THEN [h |-> h, raised |-> "none"]
    ELSE IF ~from_dict_ok(rows[i]) THEN [h |-> h, raised |-> "HistoryError"]
    ELSE LET made == [h EXCEPT !.records = Append(h.records, from_dict(rows[i], t))]
         IN  obj_load_rows([made EXCEPT !.lists[made.live] =
                                Append(made.lists[made.live], Len(made.records))],
                           rows, i + 1, t)

\* CalculationHistory.load_from_csv: _history.clear() and the appends change
\* the live list in place; the caretaker is reset when every row is in.
obj_load_from_csv(h, f, t) ==
    IF f.kind # "table"
        THEN [h |-> h, raised |-> "HistoryError"]
        ELSE LET l == obj_load_rows([h EXCEPT !.lists[h.live] = <<>>], f.rows, 1, t)
             IN  IF l.raised # "none" THEN l
                 ELSE [h |-> obj_checkpoint([l.h EXCEPT !.undo = <<>>, !.redo = <<>>]),
                       raised |-> "none"]

\* The entries of list id by value.
Content(h, id) == [i \in 1..Len(h.lists[id]) |-> h.records[h.lists[id][i]]]

\* The lists inside the mementos on either stack.
Snapshots(h) == {h.undo[i] : i \in 1..Len(h.undo)} \cup {h.redo[i] : i \in 1..Len(h.redo)}

\* ------------------------------------------------------------ the session
\* The CalculationHistory object the state variables hold.
Store ==
    [history |-> history,
     max_size |-> max_size,
     caretaker |-> [undo_stack |-> undo_stack, redo_stack |-> redo_stack]]

\* The same of the state a step leads to.
NextStore ==
    [history |-> history',
     max_size |-> max_size',
     caretaker |-> [undo_stack |-> undo_stack', redo_stack |-> redo_stack']]

SetStore(s) ==
    /\ history' = s.history
    /\ undo_stack' = s.caretaker.undo_stack
    /\ redo_stack' = s.caretaker.redo_stack
    /\ max_size' = s.max_size

\* What a call left: its name, the exception raised ("none": it returned)
\* and its message, the value returned (flag: a boolean, value: a number),
\* the file read by a load_from_csv that returned, and the depth the redo
\* stack had when the call started.
Returned(op, raised, message, flag, value, read, redo_before) ==
    [op |-> op, raised |-> raised, message |-> message, flag |-> flag,
     value |-> value, read |-> read, redo_before |-> redo_before]

Called(op, raised, flag) ==
    ret' = Returned(op, raised, "", flag, 0, NoFile, Len(redo_stack))

CalledWith(op, raised, message) ==
    ret' = Returned(op, raised, message, raised = "none", 0, NoFile, Len(redo_stack))

NotFresh ==
    /\ fresh_adds' = FALSE
    /\ appended' = <<>>

\* The records the tests hand to add_calculation (tests/test_history.py),
\* each created at instant 0.
CalcPool ==
    {Calculation("add", 1 * Scale, 2 * Scale, 3 * Scale, 0),
     Calculation("subtract", 5 * Scale, 3 * Scale, 2 * Scale, 0)}

\* Rows of files written outside the session.
GoodRows == {to_dict(c) : c \in CalcPool}

BadOperandRow == [to_dict(Calculation("add", 0, 0, 0, 0)) EXCEPT !.operand1 = StrCell("abc")]

BadTimestampRow ==
    [to_dict(Calculation("add", 0, 0, 0, 0)) EXCEPT !.timestamp = StrCell("yesterday")]

NoTimestampRow ==
    [operation |-> StrCell("add"), operand1 |-> NumCell(1 * Scale),
     operand2 |-> NumCell(2 * Scale), result |-> NumCell(3 * Scale)]

NoOperationRow ==
    [operand1 |-> NumCell(0), operand2 |-> NumCell(0), result |-> NumCell(0),
     timestamp |-> isoformat(0)]

\* The files load_from_csv is tried on: none, an unreadable one, tables of
\* well-formed rows, tables whose last row is malformed, tables without
\* the timestamp column, and a table without the operation column.
SampleFiles ==
    {NoFile, GarbageFile}
    \cup {Table(Header, rows) : rows \in SeqsUpTo(GoodRows, MaxRows)}
    \cup {Table(Header, Append(rows, bad)) :
            rows \in SeqsUpTo(GoodRows, MaxRows - 1),
            bad \in {BadOperandRow, BadTimestampRow}}
    \cup {Table(SubSeq(Header, 1, 4), [i \in 1..k |-> NoTimestampRow]) : k \in 1..MaxRows}
    \cup {Table(Tail(Header), <<NoOperationRow>>)}

\* Whether loading f keeps the instant from_dict is called at: only a row
\* without the timestamp column does (the instant is immaterial otherwise).
ReadsClock(f) ==
    f.kind = "table" /\ \E i \in 1..Len(f.rows) : "timestamp" \notin DOMAIN f.rows[i]

\* What calculate is called with: operation name and the two operands.
CalcInputs ==
    {<<"add", 1 * Scale, 2 * Scale>>, <<"divide", 1 * Scale, 3 * Scale>>,
     <<"divide", 1 * Scale, 0>>, <<"int_divide", 1 * Scale, 0>>,
     <<"modulus", 1 * Scale, 0>>, <<"percent", 1 * Scale, 0>>,
     <<"root", 4 * Scale, 0>>, <<"root", 0 - 4 * Scale, 2 * Scale>>,
     <<"sqrt", 1 * Scale, 2 * Scale>>}

InitStore ==
    /\ \E size \in 1..MaxCap :
          LET s == CalculationHistory(size)
          IN  /\ history = s.history
              /\ undo_stack = s.caretaker.undo_stack
              /\ redo_stack = s.caretaker.redo_stack
              /\ max_size = s.max_size
              /\ heap = obj_CalculationHistory(size)
    /\ file = NoFile
    /\ notified = <<>>
    /\ ret = Returned("init", "none", "", TRUE, 0, NoFile, 0)
    /\ fresh_adds = TRUE
    /\ appended = <<>>
    /\ repl = CalculatorREPL

\* A CalculationHistory on its own.
Init ==
    /\ InitStore
    /\ observers = <<>>

\* Calculator.__init__: the store, and the observers _setup_observers
\* registers (the auto-save one when config.auto_save).
InitCalc ==
    /\ InitStore
    /\ \E auto_save \in BOOLEAN :
          observers = IF auto_save THEN <<"logging", "autosave">> ELSE <<"logging">>

AddBody ==
    /\ \E calculation \in CalcPool :
          /\ SetStore(add_calculation(Store, calculation))
          /\ appended' = IF fresh_adds THEN Append(appended, calculation) ELSE appended
    /\ Called("add_calculation", "none", TRUE)
    /\ UNCHANGED <<file, observers, notified, fresh_adds>>
    /\ UNCHANGED <<heap, repl>>

AddCalculation ==
    /\ Len(undo_stack) < MaxUndo
    /\ AddBody

\* add_calculation on a store that has seen nothing else.
AppendOnly ==
    /\ Len(undo_stack) <= MaxAppends
    /\ AddBody

ClearHistory ==
    /\ SetStore(clear_history(Store))
    /\ Called("clear_history", "none", TRUE)
    /\ NotFresh
    /\ UNCHANGED <<file, observers, notified>>
    /\ UNCHANGED <<heap, repl>>

Undo ==
    /\ LET r == undo(Store)
       IN  /\ SetStore(r.self)
           /\ Called("undo", "none", r.result)
    /\ NotFresh
    /\ UNCHANGED <<file, observers, notified>>
    /\ UNCHANGED <<heap, repl>>

Redo ==
    /\ LET r == redo(Store)
       IN  /\ SetStore(r.self)
           /\ Called("redo", "none", r.result)
    /\ NotFresh
    /\ UNCHANGED <<file, observers, notified>>
    /\ UNCHANGED <<heap, repl>>

SaveToCsv ==
    /\ \E writable \in BOOLEAN :
          LET r == save_to_csv(Store, file, writable)
          IN  /\ file' = r.file
              /\ CalledWith("save_to_csv", r.raised, r.message)
    /\ UNCHANGED <<history, undo_stack, redo_stack, max_size, observers, notified,
                   fresh_adds, appended>>
    /\ UNCHANGED <<heap, repl>>

\* load_from_csv(filepath) at instant t: of the session's own path, or of
\* another path, whose file was written outside the session.
LoadFromCsv ==
    /\ \E f \in {file} \cup SampleFiles, t \in Times :
          LET r == load_from_csv(Store, f, t)
          IN  /\ t # 0 => ReadsClock(f)
              /\ SetStore(r.self)
              /\ ret' = Returned("load_from_csv", r.raised, r.message, r.raised = "none", 0,
                                IF r.raised = "none" THEN f ELSE NoFile, Len(redo_stack))
    /\ NotFresh
    /\ UNCHANGED <<file, observers, notified>>
    /\ UNCHANGED <<heap, repl>>

\* load_from_csv(filepath) of the path save_to_csv wrote last, at instant t.
LoadSaved ==
    /\ file.kind = "table"
    /\ \E t \in Times :
          LET r == load_from_csv(Store, file, t)
          IN  /\ SetStore(r.self)
              /\ ret' = Returned("load_from_csv", r.raised, r.message, r.raised = "none", 0,
                                IF r.raised = "none" THEN file ELSE NoFile, Len(redo_stack))
    /\ NotFresh
    /\ UNCHANGED <<file, observers, notified>>
    /\ UNCHANGED <<heap, repl>>

\* The queries of a CalculationHistory; ret keeps the boolean returned, the
\* length returned, or whether an entry (a non-empty list) was returned.
GetHistory ==
    /\ LET r == get_history(Store)
       IN  /\ SetStore(r.self)
           /\ ret' = Returned("get_history", "none", "", r.result # <<>>, Len(r.result),
                             NoFile, Len(redo_stack))
    /\ UNCHANGED <<file, observers, notified, fresh_adds, appended, heap, repl>>

GetLastCalculation ==
    /\ LET r == get_last_calculation(Store)
       IN  /\ SetStore(r.self)
           /\ Called("get_last_calculation", "none", r.result.some)
    /\ UNCHANGED <<file, observers, notified, fresh_adds, appended, heap, repl>>

CanUndo ==
    /\ Called("can_undo", "none", can_undo(Store))
    /\ UNCHANGED <<history, undo_stack, redo_stack, max_size, file, observers, notified,
                   fresh_adds, appended, heap, repl>>

CanRedo ==
    /\ Called("can_redo", "none", can_redo(Store))
    /\ UNCHANGED <<history, undo_stack, redo_stack, max_size, file, observers, notified,
                   fresh_adds, appended, heap, repl>>

LenOfHistory ==
    /\ LET r == len(Store)
       IN  /\ SetStore(r.self)
           /\ ret' = Returned("len", "none", "", TRUE, r.result, NoFile, Len(redo_stack))
    /\ UNCHANGED <<file, observers, notified, fresh_adds, appended, heap, repl>>

\* The calls on the store held as objects leave the other store alone.
ObjFrame ==
    UNCHANGED <<history, undo_stack, redo_stack, max_size, file, observers, notified,
                fresh_adds, appended, repl>>

\* Whether the object-level store can allocate lists more list objects.
CanAllocate(n) == Len(heap.lists) + n <= MaxLists

ObjAddCalculation ==
    /\ CanAllocate(1)
    /\ Len(heap.records) < MaxRecords
    /\ \E calculation \in CalcPool : heap' = obj_add_calculation(heap, calculation)
    /\ Called("add_calculation", "none", TRUE)
    /\ ObjFrame

ObjClearHistory ==
    /\ CanAllocate(1)
    /\ heap' = obj_clear_history(heap)
    /\ Called("clear_history", "none", TRUE)
    /\ ObjFrame

ObjUndo ==
    /\ CanAllocate(1)
    /\ LET r == obj_undo(heap)
       IN  /\ heap' = r.h
           /\ Called("undo", "none", r.result)
    /\ ObjFrame

ObjRedo ==
    /\ CanAllocate(1)
    /\ LET r == obj_redo(heap)
       IN  /\ heap' = r.h
           /\ Called("redo", "none", r.result)
    /\ ObjFrame

\* The files the object-level store loads: one well-formed row, or a
\* well-formed row and a malformed one.
ObjFiles ==
    {Table(Header, <<row>>) : row \in GoodRows}
    \cup {Table(Header, <<row, BadOperandRow>>) : row \in GoodRows}

ObjLoadFromCsv ==
    /\ CanAllocate(1)
    /\ Len(heap.records) < MaxRecords
    /\ \E f \in ObjFiles :
          LET r == obj_load_from_csv(heap, f, 0)
          IN  /\ heap' = r.h
              /\ CalledWith("load_from_csv", r.raised, "")
    /\ ObjFrame

ObjGetHistory ==
    /\ CanAllocate(1)
    /\ Len(heap.held) < MaxHeld
    /\ heap' = obj_get_history(heap)
    /\ Called("get_history", "none", TRUE)
    /\ ObjFrame

\* The caller changes a list get_history returned: append of a record,
\* pop(0), or reverse().
CallerChangesList ==
    /\ \E k \in 1..Len(heap.held) :
          LET id == heap.held[k]
              content == heap.lists[id]
          IN  \/ /\ Len(content) < MaxCap + 1
                 /\ \E record \in 1..Len(heap.records) :
                       heap' = [heap EXCEPT !.lists[id] = Append(content, record)]
                 /\ Called("list.append", "none", TRUE)
              \/ /\ content # <<>>
                 /\ heap' = [heap EXCEPT !.lists[id] = Tail(content)]
                 /\ Called("list.pop", "none", TRUE)
              \/ /\ Len(content) >= 2
                 /\ content[1] # content[Len(content)]
                 /\ heap' = [heap EXCEPT !.lists[id] =
                                [i \in 1..Len(content) |-> content[Len(content) + 1 - i]]]
                 /\ Called("list.reverse", "none", TRUE)
    /\ ObjFrame

\* The result a caller writes into a record.
Overwritten == 0 - Scale

\* The records in the live list or in a list get_history returned.
Reachable(h) ==
    {h.lists[h.live][i] : i \in 1..Len(h.lists[h.live])}
    \cup UNION {{h.lists[h.held[k]][i] : i \in 1..Len(h.lists[h.held[k]])} :
                   k \in 1..Len(h.held)}

\* The caller assigns to a field of a Calculation it reaches through the
\* live entries or a get_history result: calculation.result = ...
CallerChangesRecord ==
    /\ \E record \in Reachable(heap) :
          /\ heap.records[record].result # Overwritten
          /\ heap' = [heap EXCEPT !.records[record].result = Overwritten]
    /\ Called("setattr", "none", TRUE)
    /\ ObjFrame

\* Calculator.calculate
Calculate ==
    /\ Len(undo_stack) < MaxUndo
    /\ \E inp \in CalcInputs, writable \in BOOLEAN :
          LET r == calculate(Store, observers, file, inp[1], inp[2], inp[3], 0, writable)
          IN  /\ SetStore(r.self)
              /\ file' = r.file
              /\ notified' = r.notified
              /\ ret' = Returned("calculate", r.raised, r.message, r.raised = "none", r.value,
                                NoFile, Len(redo_stack))
    /\ NotFresh
    /\ UNCHANGED observers
    /\ UNCHANGED <<heap, repl>>

\* Calculator.calculate while the auto-save path can be written.
CalculateWritable ==
    /\ Len(undo_stack) < MaxUndo
    /\ \E inp \in CalcInputs :
          LET r == calculate(Store, observers, file, inp[1], inp[2], inp[3], 0, TRUE)
          IN  /\ SetStore(r.self)
              /\ file' = r.file
              /\ notified' = r.notified
              /\ ret' = Returned("calculate", r.raised, r.message, r.raised = "none", r.value,
                                NoFile, Len(redo_stack))
    /\ NotFresh
    /\ UNCHANGED observers
    /\ UNCHANGED <<heap, repl>>

\* Calculator.add_observer
AddObserver ==
    /\ Len(observers) < MaxObservers
    /\ \E observer \in ObserverPool : observers' = Append(observers, observer)
    /\ Called("add_observer", "none", TRUE)
    /\ UNCHANGED <<history, undo_stack, redo_stack, max_size, file, notified,
                   fresh_adds, appended>>
    /\ UNCHANGED <<heap, repl>>

\* Calculator.remove_observer: list.remove raises ValueError on an absent one.
RemoveObserver ==
    /\ \E observer \in ObserverPool :
          IF \E i \in 1..Len(observers) : observers[i] = observer
              THEN /\ observers' = remove_observer(observers, observer)
                   /\ Called("remove_observer", "none", TRUE)
              ELSE /\ observers' = observers
                   /\ Called("remove_observer", "ValueError", FALSE)
    /\ UNCHANGED <<history, undo_stack, redo_stack, max_size, file, notified,
                   fresh_adds, appended>>
    /\ UNCHANGED <<heap, repl>>

\* add_calculation on a fresh store, while nothing else has been called.
AppendFresh ==
    /\ fresh_adds
    /\ AppendOnly

\* undo() after the appends of a fresh store and after nothing but undo():
\* the appended records stay on record.
UndoRun ==
    /\ Len(redo_stack) <= MaxAppends + 1
    /\ LET r == undo(Store)
       IN  /\ SetStore(r.self)
           /\ Called("undo", "none", r.result)
    /\ fresh_adds' = FALSE
    /\ UNCHANGED <<file, observers, notified, appended>>
    /\ UNCHANGED <<heap, repl>>

\* The operation commands typed at the calculator> prompt.
Commands == {"divide"}

\* CalculatorREPL.run, one turn of the loop on an operation command:
\* handle_operation(command).
HandleOperation ==
    /\ repl.running
    /\ Len(undo_stack) < MaxUndo
    /\ \E operation \in Commands, operand1 \in Texts, operand2 \in Texts,
          writable \in BOOLEAN :
          LET r == handle_operation(Store, observers, file, operation, operand1,
                                    operand2, 0, writable)
          IN  /\ SetStore(r.self)
              /\ file' = r.file
              /\ notified' = r.notified
              /\ ret' = Returned("handle_operation", "none", r.printed, TRUE, 0,
                                NoFile, Len(redo_stack))
              /\ repl' = [repl EXCEPT !.typed = <<operand1, operand2>>]
    /\ NotFresh
    /\ UNCHANGED <<observers, heap>>

\* One turn of the loop on "undo": handle_undo.
HandleUndo ==
    /\ repl.running
    /\ Undo

\* One turn of the loop on "exit": handle_exit; the loop ends.
HandleExit ==
    /\ repl.running
    /\ repl' = [repl EXCEPT !.running = FALSE]
    /\ Called("handle_exit", "none", TRUE)
    /\ UNCHANGED <<history, undo_stack, redo_stack, max_size, file, observers, notified,
                   fresh_adds, appended, heap>>

\* Every call on a CalculationHistory that changes it.
Next ==
    \/ AddCalculation
    \/ ClearHistory
    \/ Undo
    \/ Redo
    \/ LoadFromCsv

Spec == Init /\ [][Next]_vars

\* Appends only, on a fresh store.
SpecAppend == Init /\ [][AppendOnly]_vars

\* Appends, clears, undos, redos and saves: a store that never loads.
NextEdit ==
    \/ AddCalculation
    \/ ClearHistory
    \/ Undo
    \/ Redo
    \/ SaveToCsv

SpecEdit == Init /\ [][NextEdit]_vars

\* A store that saves to a path and loads what it saved.
NextPersist ==
    \/ AddCalculation
    \/ ClearHistory
    \/ Undo
    \/ SaveToCsv
    \/ LoadSaved

SpecPersist == Init /\ [][NextPersist]_vars

\* The store held as objects, and a caller that changes what it was handed.
NextObj ==
    \/ ObjAddCalculation
    \/ ObjClearHistory
    \/ ObjUndo
    \/ ObjRedo
    \/ ObjLoadFromCsv
    \/ ObjGetHistory
    \/ CallerChangesList
    \/ CallerChangesRecord

SpecObj == Init /\ [][NextObj]_vars

\* A Calculator and its observers.
NextCalc ==
    \/ Calculate
    \/ AddObserver
    \/ RemoveObserver

SpecCalc == InitCalc /\ [][NextCalc]_vars

\* A Calculator with the observers it registers itself: calculate, and
\* Calculator.undo, redo and clear_history, which are the store's.
NextSession ==
    \/ Calculate
    \/ Undo
    \/ Redo
    \/ ClearHistory

SpecSession == InitCalc /\ [][NextSession]_vars

\* The REPL loop of main.py over a Calculator: operation commands, undo, exit.
NextRepl ==
    \/ HandleOperation
    \/ HandleUndo
    \/ HandleExit

SpecRepl == InitCalc /\ [][NextRepl]_vars

\* N appends on a fresh store and then undo() again and again.
NextUndoRun ==
    \/ AppendFresh
    \/ UndoRun

SpecUndoRun == Init /\ [][NextUndoRun]_vars

\* A Calculator with the observers it registers itself, on a path that can
\* always be written.
NextAutoSave ==
    \/ CalculateWritable
    \/ Undo
    \/ Redo
    \/ ClearHistory

SpecAutoSave == InitCalc /\ [][NextAutoSave]_vars

\* A store that is edited, saved and queried.
NextQuery ==
    \/ AddCalculation
    \/ Undo
    \/ SaveToCsv
    \/ GetHistory
    \/ GetLastCalculation
    \/ CanUndo
    \/ CanRedo
    \/ LenOfHistory

SpecQuery == Init /\ [][NextQuery]_vars

\* ------------------------------------------------------------------ claims
Checkpointed ==
    \/ ret.op \in {"add_calculation", "clear_history"}
    \/ ret.op = "load_from_csv" /\ ret.raised = "none"

\* C1: after every call the number of live entries is at most the capacity.
C1_BoundedByCapacity == Len(history) <= max_size

\* C2: after N > C consecutive add_calculation calls on a fresh store the
\* live entries are the last C records appended, oldest first.
C2_LastCRecords ==
    (fresh_adds /\ Len(appended) > max_size)
        => history = SubSeq(appended, Len(appended) - max_size + 1, Len(appended))

\* More than one record has been evicted and the records kept differ.
C2_Witness ==
    /\ fresh_adds
    /\ max_size = 2
    /\ Len(appended) >= max_size + 2
    /\ ret.op = "add_calculation"
    /\ history[1] # history[2]

\* C3: the snapshot on top of the undo stack equals the live entries.
C3_TopIsLive == history = Last(undo_stack)

\* C4: when undo succeeds, undo() and then redo() leave the live entries as
\* they were before the undo.
C4_UndoRedoInverse ==
    LET u == undo(Store)
        r == redo(u.self)
    IN  u.result => (r.result /\ r.self.history = history)

\* A redo has just put back entries an undo had taken away.
C4_Witness ==
    /\ ret.op = "redo"
    /\ ret.flag
    /\ history # <<>>
    /\ LET u == undo(Store) IN u.result /\ u.self.history # history

\* C5: add_calculation, clear_history and a load_from_csv that returns leave
\* the redo stack empty, and can_redo() false.
C5_CheckpointClearsRedo == Checkpointed => (redo_stack = <<>> /\ ~can_redo(Store))

\* An add_calculation has discarded two undone states.
C5_Witness == ret.op = "add_calculation" /\ ret.redo_before >= 2 /\ redo_stack = <<>>

\* C6, as claimed: can_undo() is false after construction, after
\* clear_history and after one add_calculation following either, and true
\* after the second.
C6_CanUndoAfterSecondAdd ==
    [][/\ ret.op \in {"init", "clear_history"} => ~can_undo(Store)
       /\ (ret.op \in {"init", "clear_history"} /\ ret'.op = "add_calculation")
            => /\ ~can_undo(NextStore)
               /\ \A c \in CalcPool : can_undo(add_calculation(NextStore, c))]_vars

\* C6, amended: can_undo() is false after construction and after
\* clear_history, and true after the first add_calculation following either
\* and after the second.
C6_CanUndoAfterFirstAdd ==
    [][/\ ret.op \in {"init", "clear_history"} => ~can_undo(Store)
       /\ (ret.op \in {"init", "clear_history"} /\ ret'.op = "add_calculation")
            => /\ can_undo(NextStore)
               /\ \A c \in CalcPool : can_undo(add_calculation(NextStore, c))]_vars

\* One add_calculation on a fresh store, and undo is available.
C6_Witness == fresh_adds /\ Len(appended) = 1 /\ can_undo(Store)

\* C7: after any add_calculation, an undo() restores the live entries to
\* what they were before that add_calculation.
C7_UndoRestoresPreAdd ==
    [][ret'.op = "add_calculation"
         => LET u == undo(NextStore) IN u.result /\ u.self.history = history]_vars

\* C8: a load_from_csv that raises leaves the live entries and both stacks
\* as they were.
C8_LoadAllOrNothing ==
    [][(ret'.op = "load_from_csv" /\ ret'.raised # "none")
         => UNCHANGED <<history, undo_stack, redo_stack>>]_vars

\* C9: after a load_from_csv that returns, the live entries are the file's
\* rows in file order, the undo stack holds the one snapshot of them, the
\* redo stack is empty and neither undo nor redo is available.
C9_LoadResetsToFile ==
    (ret.op = "load_from_csv" /\ ret.raised = "none")
        => /\ Len(history) = Len(ret.read.rows)
           /\ \A i \in 1..Len(history) :
                 \A col \in DOMAIN ret.read.rows[i] :
                     to_dict(history[i])[col] = ret.read.rows[i][col]
           /\ undo_stack = <<history>>
           /\ redo_stack = <<>>
           /\ ~can_undo(Store)
           /\ ~can_redo(Store)

\* Two different rows have been loaded over a store that had undone states.
C9_Witness ==
    /\ ret.op = "load_from_csv"
    /\ ret.raised = "none"
    /\ ret.redo_before > 0
    /\ Len(history) = 2
    /\ history[1] # history[2]

\* C10: when an observer's update fails during the fan-out of calculate,
\* the observers registered after it are still notified and calculate
\* returns without raising.
C10_FanOutSurvivesFailure ==
    (ret.op = "calculate"
        /\ \E i \in 1..Len(notified) : update_raises(observers[notified[i].at]))
        => /\ ret.raised = "none"
           /\ [i \in 1..Len(notified) |-> notified[i].at] = [i \in 1..Len(observers) |-> i]

\* The messages of the OperationErrors of the operation step: an unknown
\* name (create_operation) or an arithmetic precondition (execute).
OperationStepMessages ==
    {"Unknown operation", "Cannot divide by zero", "Cannot perform modulus with zero",
     "Cannot calculate percentage with zero denominator", "Cannot calculate 0th root",
     "Cannot calculate even root of negative number"}

\* C11: a calculate that raises OperationError for an unknown operation
\* name or a violated arithmetic precondition leaves the live entries and
\* both stacks as they were.
C11_FailedCalculateKeepsHistory ==
    [][(ret'.op = "calculate" /\ ret'.raised = "OperationError"
            /\ ret'.message \in OperationStepMessages)
         => UNCHANGED <<history, undo_stack, redo_stack>>]_vars

\* An even root of a negative number was refused on a store that holds an
\* entry and an undone state.
C11_Witness ==
    /\ ret.op = "calculate"
    /\ ret.message = "Cannot calculate even root of negative number"
    /\ history # <<>>
    /\ redo_stack # <<>>

\* C12: with fewer than two snapshots on the undo stack the manager's undo
\* returns None and keeps its stacks, and undo() returns False without
\* raising and leaves the live entries and both stacks as they were, however
\* often it is repeated.
C12_UndoAtBottomIsNoOp ==
    [][(Len(undo_stack) < 2 /\ ret'.op = "undo")
         => /\ caretaker_undo(Store.caretaker) = [ct |-> Store.caretaker, memento |-> None]
            /\ ret'.raised = "none"
            /\ ~ret'.flag
            /\ UNCHANGED <<history, undo_stack, redo_stack>>
            /\ undo(NextStore) = [self |-> Store, result |-> FALSE]]_vars

\* undo() was refused at depth one with entries live and an undone state
\* kept for redo.
C12_Witness ==
    /\ ret.op = "undo"
    /\ ~ret.flag
    /\ Len(undo_stack) = 1
    /\ redo_stack # <<>>
    /\ history # <<>>

\* C13: with an empty redo stack the manager's redo returns None and keeps
\* its stacks, and redo() returns False without raising and leaves the live
\* entries and both stacks as they were.
C13_RedoOnEmptyIsNoOp ==
    [][(redo_stack = <<>> /\ ret'.op = "redo")
         => /\ caretaker_redo(Store.caretaker) = [ct |-> Store.caretaker, memento |-> None]
            /\ ret'.raised = "none"
            /\ ~ret'.flag
            /\ UNCHANGED <<history, undo_stack, redo_stack>>]_vars

\* redo() was refused on a store with entries and states to undo.
C13_Witness ==
    /\ ret.op = "redo"
    /\ ~ret.flag
    /\ redo_stack = <<>>
    /\ Len(undo_stack) >= 2
    /\ history # <<>>

\* C14: after clear_history the live entries are empty, the redo stack is
\* empty and the undo stack holds exactly one snapshot, the empty sequence.
C14_ClearLeavesOneEmptySnapshot ==
    ret.op = "clear_history"
        => /\ history = <<>>
           /\ redo_stack = <<>>
           /\ undo_stack = <<CalculatorMemento(<<>>)>>

\* A store with an undone state has been cleared.
C14_Witness == ret.op = "clear_history" /\ ret.redo_before > 0 /\ history = <<>>

\* C15: at undo depth two or more the manager's undo pops the top snapshot
\* of the undo stack, pushes that snapshot onto the redo stack and returns
\* the snapshot then on top of the undo stack; every other element of both
\* stacks stays, and undo() makes the returned snapshot the live entries.
C15_UndoMovesTopToRedo ==
    [][(Len(undo_stack) >= 2 /\ ret'.op = "undo")
         => /\ caretaker_undo(Store.caretaker) =
                  [ct |-> [undo_stack |-> Front(undo_stack),
                           redo_stack |-> Append(redo_stack, Last(undo_stack))],
                   memento |-> Some(undo_stack[Len(undo_stack) - 1])]
            /\ ret'.flag
            /\ undo_stack' = Front(undo_stack)
            /\ redo_stack' = Append(redo_stack, Last(undo_stack))
            /\ history' = get_state(undo_stack[Len(undo_stack) - 1])]_vars

\* Two different states have been undone one after the other.
C15_Witness ==
    /\ ret.op = "undo"
    /\ ret.flag
    /\ Len(redo_stack) = 2
    /\ redo_stack[1] # redo_stack[2]
    /\ history # redo_stack[2]

\* C16: with a non-empty redo stack the manager's redo pops the top
\* snapshot of the redo stack, pushes it onto the undo stack and returns it,
\* and redo() makes its content the live entries.
C16_RedoMovesTopToUndo ==
    [][(redo_stack # <<>> /\ ret'.op = "redo")
         => /\ caretaker_redo(Store.caretaker) =
                  [ct |-> [undo_stack |-> Append(undo_stack, Last(redo_stack)),
                           redo_stack |-> Front(redo_stack)],
                   memento |-> Some(Last(redo_stack))]
            /\ ret'.flag
            /\ redo_stack' = Front(redo_stack)
            /\ undo_stack' = Append(undo_stack, Last(redo_stack))
            /\ history' = get_state(Last(redo_stack))]_vars

\* One of two undone states has been redone; the other is still to redo.
C16_Witness ==
    /\ ret.op = "redo"
    /\ ret.flag
    /\ Len(redo_stack) = 1
    /\ history = Last(undo_stack)
    /\ history # redo_stack[1]
    /\ history # <<>>

\* C17: save_to_csv on a store without live entries raises HistoryError,
\* leaves the file at the path as it was, and leaves the live entries and
\* both stacks as they were.
C17_SaveEmptyFails ==
    [][(history = <<>> /\ ret'.op = "save_to_csv")
         => /\ ret'.raised = "HistoryError"
            /\ ret'.message = "No history to save"
            /\ UNCHANGED <<file, history, undo_stack, redo_stack>>]_vars

\* A save was refused on an emptied store that has an undone state, and the
\* file of an earlier save is still there.
C17_Witness ==
    /\ ret.op = "save_to_csv"
    /\ ret.raised = "HistoryError"
    /\ history = <<>>
    /\ redo_stack # <<>>
    /\ file.kind = "table"

\* C18: load_from_csv of a path where no file exists raises HistoryError
\* and leaves the live entries and both stacks as they were.
C18_LoadMissingFails ==
    [][/\ \A t \in Times :
              load_from_csv(Store, NoFile, t) =
                  [self |-> Store, raised |-> "HistoryError",
                   message |-> "History file not found"]
       /\ (ret'.op = "load_from_csv" /\ ret'.message = "History file not found")
            => /\ ret'.raised = "HistoryError"
               /\ UNCHANGED <<history, undo_stack, redo_stack>>]_vars

\* A load of a missing file was refused on a store with entries and an
\* undone state.
C18_Witness ==
    /\ ret.op = "load_from_csv"
    /\ ret.message = "History file not found"
    /\ history # <<>>
    /\ redo_stack # <<>>

C20_TimestampFallsBack ==
    \A f \in SampleFiles, t \in Times :
        (f.kind = "table" /\ f.rows # <<>> /\ \A i \in 1..Len(f.rows) :
            from_dict_ok([c \in DOMAIN f.rows[i] \ {"timestamp"} |-> f.rows[i][c]]))
          => LET l == load_from_csv(Store, f, t)
             IN  /\ l.raised = "none"
                 /\ Len(l.self.history) = Len(f.rows)
                 /\ \A i \in 1..Len(f.rows) :
                       ("timestamp" \notin DOMAIN f.rows[i]
                            \/ ~fromisoformat(f.rows[i].timestamp).ok)
                         => l.self.history[i].timestamp = t

\* What a save_to_csv that returned wrote, but for the names of the columns:
\* one row per live entry, oldest first, each with the entry's operation,
\* operands and result and its timestamp in ISO-8601 form under the last
\* column.
SavedRowsAreEntries ==
    /\ file.kind = "table"
    /\ Len(file.header) = 5
    /\ Len(file.rows) = Len(history)
    /\ \A i \in 1..Len(history) :
          /\ DOMAIN file.rows[i] = {file.header[k] : k \in 1..5}
          /\ file.rows[i][file.header[1]] = StrCell(history[i].operation)
          /\ file.rows[i][file.header[2]] = NumCell(history[i].operand1)
          /\ file.rows[i][file.header[3]] = NumCell(history[i].operand2)
          /\ file.rows[i][file.header[4]] = NumCell(history[i].result)
          /\ file.rows[i][file.header[5]] = IsoCell(history[i].timestamp)

C23_NotifiedAfterCheckpoint ==
    ret.op = "calculate"
        => \A i \in 1..Len(notified) :
              /\ notified[i].history # <<>>
              /\ Last(notified[i].history) = notified[i].calculation
              /\ notified[i].top # <<>>
              /\ Last(notified[i].top) = notified[i].calculation

\* Two observers were notified of a record whose append evicted another.
C23_Witness ==
    /\ ret.op = "calculate"
    /\ Len(notified) >= 2
    /\ Len(undo_stack) = 3
    /\ Len(history) = 1
    /\ undo_stack[2] # undo_stack[3]

\* How often observer is registered in obs.
Registrations(obs, observer) == Cardinality({i \in 1..Len(obs) : obs[i] = observer})

\* The observers some calculate of the store notifies when obs is registered.
NotifiedWith(obs) ==
    {obs[n.at] : n \in UNION {
        LET r == calculate(Store, obs, file, inp[1], inp[2], inp[3], 0, writable)
        IN  {r.notified[i] : i \in 1..Len(r.notified)} :
            inp \in CalcInputs, writable \in BOOLEAN}}

\* obs without its entry at position k.
Without(obs, k) == SubSeq(obs, 1, k - 1) \o SubSeq(obs, k + 1, Len(obs))

\* C24, as claimed: after remove_observer(o) no calculate notifies o, and the
\* observers that remain are registered in their former relative order.
C24_RemovedIsNeverNotified ==
    \A o \in ObserverPool :
        Registrations(observers, o) > 0
          => LET left == remove_observer(observers, o)
             IN  /\ o \notin NotifiedWith(left)
                 /\ \E k \in 1..Len(observers) :
                       observers[k] = o /\ left = Without(observers, k)

\* C24, amended: remove_observer(o) takes away the earliest registration of
\* o and keeps the other entries in their order; once o has no registration
\* left, no calculate notifies it.
C24_RemoveDropsOneRegistration ==
    \A o \in ObserverPool :
        Registrations(observers, o) > 0
          => LET left == remove_observer(observers, o)
             IN  /\ Registrations(left, o) = Registrations(observers, o) - 1
                 /\ Registrations(left, o) = 0 => o \notin NotifiedWith(left)
                 /\ \E k \in 1..Len(observers) :
                       /\ observers[k] = o
                       /\ \A j \in 1..(k - 1) : observers[j] # o
                       /\ left = Without(observers, k)

\* remove_observer has taken an observer away and left two different ones,
\* one of them registered after construction.
C24_Witness ==
    /\ ret.op = "remove_observer"
    /\ ret.raised = "none"
    /\ Len(observers) = 2
    /\ observers[1] # observers[2]
    /\ Registrations(observers, "recording") = 1

\* C25: a save that fails inside the auto-save observer is swallowed:
\* AutoSaveObserver.update does not raise, and a calculate whose observers
\* are otherwise sound returns its result and leaves the new record in the
\* history.
C25_AutoSaveFailureSwallowed ==
    Registrations(observers, "autosave") > 0
      => \A inp \in CalcInputs :
            LET r == calculate(Store, observers, file, inp[1], inp[2], inp[3], 0, FALSE)
            IN  /\ \A c \in CalcPool : ~update("autosave", Store, c, file, FALSE).raised
                /\ (r.notified # <<>>
                      /\ \A i \in 1..Len(r.notified) :
                            ~update_raises(observers[r.notified[i].at]))
                    => /\ r.raised = "none"
                       /\ r.file = file
                       /\ r.self.history # <<>>
                       /\ Last(r.self.history).operation = inp[1]
                       /\ Last(r.self.history).result = r.value

\* A calculate has returned although its auto-save observer, notified
\* between two others, could not write the file.
C25_Witness ==
    /\ ret.op = "calculate"
    /\ ret.raised = "none"
    /\ Len(notified) = 3
    /\ observers[2] = "autosave"
    /\ file = NoFile
    /\ history # <<>>

\* C29: add_calculation returns without raising, makes the record it is
\* given the newest live entry behind the entries that were there (but for
\* the oldest when one is evicted), and checkpoints once: the undo stack
\* grows by exactly one snapshot, equal to the entries after the eviction.
C29_AddAppendsAndCheckpointsOnce ==
    /\ ret.op = "add_calculation" => ret.raised = "none"
    /\ \A c \in CalcPool :
          LET a == add_calculation(Store, c)
          IN  /\ a.history # <<>>
              /\ Last(a.history) = c
              /\ Front(a.history) = IF Len(history) < max_size THEN history
                                     ELSE Tail(history)
              /\ a.caretaker.undo_stack = Append(undo_stack, CalculatorMemento(a.history))

\* An add_calculation has evicted the oldest entry of a full store of two
\* and left its checkpoint on top of the undo stack.
C29_Witness ==
    /\ ret.op = "add_calculation"
    /\ max_size = 2
    /\ Len(history) = 2
    /\ Len(undo_stack) >= 3
    /\ Len(undo_stack[Len(undo_stack) - 1]) = 2
    /\ Last(undo_stack) = history
    /\ history[1] # history[2]

\* C26: a change of a list get_history returned (append, removal, reorder)
\* changes neither the live entries, their number, nor any snapshot on the
\* stacks.
C26_GetHistoryIsACopy ==
    [][ret'.op \in {"list.append", "list.pop", "list.reverse"}
         => /\ heap'.live = heap.live
            /\ heap'.lists[heap.live] = heap.lists[heap.live]
            /\ Content(heap', heap.live) = Content(heap, heap.live)
            /\ heap'.undo = heap.undo
            /\ heap'.redo = heap.redo
            /\ \A m \in Snapshots(heap) : heap'.lists[m] = heap.lists[m]]_vars

\* The caller has emptied a list it got from a store that still has entries.
C26_Witness ==
    /\ ret.op = "list.pop"
    /\ heap.held # <<>>
    /\ heap.lists[heap.held[1]] = <<>>
    /\ heap.lists[heap.live] # <<>>

\* C27: the sequence a snapshot on a stack holds never changes while it is
\* there, whatever is done in place to the live list or to a list get_state
\* returned.
C27_SnapshotSequenceIsFixed ==
    [][\A m \in Snapshots(heap) \cap Snapshots(heap') :
          heap'.lists[m] = heap.lists[m]]_vars

\* An entry has been added to the live list an undo installed from
\* get_state, with the snapshot it came from still on the undo stack.
C27_Witness ==
    /\ ret.op = "add_calculation"
    /\ Len(heap.undo) = 2
    /\ heap.live # 1
    /\ heap.lists[heap.undo[1]] = <<>>
    /\ Len(heap.lists[heap.live]) = 1

\* C28: a change of a field of a record reached through the live entries or
\* a get_history result changes no record of a snapshot on the stacks.
C28_SnapshotIsDeepCopy ==
    [][ret'.op = "setattr"
         => \A m \in Snapshots(heap) : Content(heap', m) = Content(heap, m)]_vars

\* What claim C30 calls failing validation, in the words of the claim: the
\* text is not a number, or its magnitude is above max_input_value.
FailsValidation(text) ==
    \/ float_str(text).raised
    \/ abs_exceeds(float_str(text), max_input_value)

\* C30: when either operand typed at handle_operation's prompts fails
\* validation, calculate is not called: the history, both stacks, the file
\* and the observer list stay as they were, no observer is notified, a
\* validation error is printed, and the loop keeps running.
C30_InvalidOperandNeverReachesCalculate ==
    [][(/\ ret'.op = "handle_operation"
        /\ repl'.typed # <<>>
        /\ \E i \in 1..2 : FailsValidation(repl'.typed[i]))
       => /\ UNCHANGED <<history, undo_stack, redo_stack, max_size, file, observers>>
          /\ notified' = <<>>
          /\ ret'.raised = "none"
          /\ ret'.message = "Validation Error"
          /\ repl'.running]_vars

\* C30 witness: after a calculation was recorded and notified, a
\* handle_operation read a valid first and an out-of-range second operand.
C30_Witness ==
    /\ ret.op = "handle_operation"
    /\ ret.message = "Validation Error"
    /\ repl.typed = <<"1", "-1e11">>
    /\ Len(history) > 0
    /\ notified = <<>>
    /\ repl.running

\* C31: after N consecutive add_calculation calls on a fresh store of any
\* capacity, the first N consecutive undo() calls return True and every
\* later one returns False; the live entries are then empty.  The undo
\* stack holds one snapshot per append, whatever the capacity.
C31_UndoDepthIsAppendCount ==
    /\ fresh_adds => Len(undo_stack) = Len(appended) + 1
    /\ (ret.op = "undo" /\ ~fresh_adds)
         => /\ ret.flag <=> ret.redo_before < Len(appended)
            /\ ret.flag => Len(redo_stack) = ret.redo_before + 1
            /\ ~ret.flag => /\ history = <<>>
                            /\ Len(redo_stack) = Len(appended)

\* More appends than the capacity, as many undos, and one more refused.
C31_Witness ==
    /\ ret.op = "undo"
    /\ ~fresh_adds
    /\ ~ret.flag
    /\ Len(appended) >= max_size + 2
    /\ ret.redo_before = Len(appended)
    /\ history = <<>>

\* C32: the undo stack holds at least one snapshot in every reachable
\* state: after construction and after every append, clear, undo, redo and
\* load, whether the load returns or raises.
C32_UndoStackNeverEmpty == Len(undo_stack) >= 1

\* A load has raised after it replaced the entries, on a store at undo
\* depth one: the one snapshot is still there.
C32_Witness ==
    /\ ret.op = "load_from_csv"
    /\ ret.message = "Failed to load history"
    /\ Len(undo_stack) = 1
    /\ history # <<>>

\* The store after k calls of undo(), and after k calls of redo().
RECURSIVE undo_times(_, _)
undo_times(self, k) == IF k = 0 THEN self ELSE undo_times(undo(self).self, k - 1)

RECURSIVE redo_times(_, _)
redo_times(self, k) == IF k = 0 THEN self ELSE redo_times(redo(self).self, k - 1)

\* C33: k successful undos followed by k redos leave the live entries, the
\* undo stack and the redo stack as they were before the first undo, for
\* every k the undo depth allows; and a successful redo followed by an undo
\* leaves them as they were before the redo.
C33_UndoRedoRoundTrip ==
    /\ \A k \in 1..(Len(undo_stack) - 1) : redo_times(undo_times(Store, k), k) = Store
    /\ redo_stack # <<>> => undo(redo(Store).self).self = Store

\* How often snapshot m occurs in the sequence of snapshots s.
Occurrences(s, m) == Cardinality({i \in 1..Len(s) : s[i] = m})

\* The step discards a snapshot: some snapshot is on the two stacks less
\* often after it than before.
DiscardsSnapshot ==
    LET before == undo_stack \o redo_stack
        after == undo_stack' \o redo_stack'
    IN  \E i \in 1..Len(before) :
           Occurrences(after, before[i]) < Occurrences(before, before[i])

\* C34: a successful undo or redo leaves the number of snapshots on the two
\* stacks together unchanged and moves exactly the top snapshot of one stack
\* to the top of the other; a step discards a snapshot only if it is an
\* add_calculation, which keeps the undo stack and empties the redo stack,
\* a clear_history or a load_from_csv that returns.
C34_UndoRedoConserveSnapshots ==
    [][/\ (ret'.op = "undo" /\ ret'.flag)
            => /\ Len(undo_stack') + Len(redo_stack') = Len(undo_stack) + Len(redo_stack)
               /\ undo_stack = Append(undo_stack', Last(redo_stack'))
               /\ redo_stack = Front(redo_stack')
       /\ (ret'.op = "redo" /\ ret'.flag)
            => /\ Len(undo_stack') + Len(redo_stack') = Len(undo_stack) + Len(redo_stack)
               /\ redo_stack = Append(redo_stack', Last(undo_stack'))
               /\ undo_stack = Front(undo_stack')
       /\ DiscardsSnapshot
            => \/ /\ ret'.op = "add_calculation"
                  /\ undo_stack = Front(undo_stack')
                  /\ redo_stack # <<>>
               \/ ret'.op = "clear_history"
               \/ ret'.op = "load_from_csv" /\ ret'.raised = "none"]_vars

\* Two undone snapshots have been moved back by redo: the redo stack is
\* empty again and the undo stack holds three different snapshots.
C34_Witness ==
    /\ ret.op = "redo"
    /\ ret.flag
    /\ redo_stack = <<>>
    /\ Len(undo_stack) = 3
    /\ undo_stack[2] # undo_stack[3]
    /\ undo_stack[1] # undo_stack[2]

\* The number of undo() calls that return True when undo() is called again
\* and again, at most calls times, until one returns False; and of redo().
RECURSIVE UndoSuccesses(_, _)
UndoSuccesses(self, calls) ==
    IF calls = 0 \/ ~undo(self).result THEN 0
    ELSE 1 + UndoSuccesses(undo(self).self, calls - 1)

RECURSIVE RedoSuccesses(_, _)
RedoSuccesses(self, calls) ==
    IF calls = 0 \/ ~redo(self).result THEN 0
    ELSE 1 + RedoSuccesses(redo(self).self, calls - 1)

\* More calls than there are snapshots on the two stacks.
EnoughCalls == Len(undo_stack) + Len(redo_stack) + 1

\* C35: in every reachable state, undo() called repeatedly returns False
\* after exactly (undo depth - 1) calls that return True, and redo() called
\* repeatedly returns False after exactly len(redo stack) calls that return
\* True.
C35_RepeatedUndoRedoTerminate ==
    /\ UndoSuccesses(Store, EnoughCalls) = Len(undo_stack) - 1
    /\ RedoSuccesses(Store, EnoughCalls) = Len(redo_stack)

\* An undo has succeeded and both a further undo and a redo are possible.
C35_Witness ==
    /\ ret.op = "undo"
    /\ ret.flag
    /\ UndoSuccesses(Store, EnoughCalls) >= 1
    /\ RedoSuccesses(Store, EnoughCalls) >= 1
    /\ history # <<>>

\* C36: when the update of a registered observer raises during calculate,
\* calculate raises OperationError and the record of that call stays: it is
\* the newest live entry and its checkpoint is on top of the undo stack,
\* above the snapshots that were there.
C36_ObserverFailureKeepsRecord ==
    [][(/\ ret'.op = "calculate"
        /\ notified' # <<>>
        /\ update_raises(observers[Last(notified').at]))
       => /\ ret'.raised = "OperationError"
          /\ history' # <<>>
          /\ Last(history') = notified'[1].calculation
          /\ Front(history') = IF Len(history) < max_size THEN history ELSE Tail(history)
          /\ undo_stack' = Append(undo_stack, CalculatorMemento(history'))]_vars

\* The observer registered second raised after the first was notified, on
\* a store that is full and has earlier checkpoints: the new record is the
\* newest live entry and is checkpointed.
C36_Witness ==
    /\ ret.op = "calculate"
    /\ ret.raised = "OperationError"
    /\ Len(notified) = 2
    /\ update_raises(observers[2])
    /\ Len(history) = max_size
    /\ Last(history) = notified[1].calculation
    /\ Last(undo_stack) = history
    /\ Len(undo_stack) >= 3

\* C37: a calculate that fails in the operation step, on an unknown
\* operation name or a violated arithmetic precondition, notifies no
\* observer and leaves the file at the auto-save path as it was.
C37_FailedOperationNotifiesNobody ==
    [][(/\ ret'.op = "calculate"
        /\ ret'.raised = "OperationError"
        /\ ret'.message \in OperationStepMessages)
       => /\ notified' = <<>>
          /\ file' = file]_vars

\* An unknown operation was refused with the auto-save observer registered
\* and live entries that no auto-save has written yet: there is still no
\* file.
C37_Witness ==
    /\ ret.op = "calculate"
    /\ ret.message = "Unknown operation"
    /\ notified = <<>>
    /\ \E i \in 1..Len(observers) : observers[i] = "autosave"
    /\ history # <<>>
    /\ file = NoFile

AutoSaveRegistered == \E i \in 1..Len(observers) : observers[i] = "autosave"

\* C38: with the auto-save observer registered and the path writable, after
\* every calculate that returns the file holds one row per live entry, in
\* order; undo, redo and clear_history leave the file as it was.
C38_AutoSaveFollowsCalculate ==
    [][/\ (AutoSaveRegistered /\ ret'.op = "calculate" /\ ret'.raised = "none")
            => SavedRowsAreEntries'
       /\ ret'.op \in {"undo", "redo", "clear_history"} => file' = file]_vars

\* After an undo the file still holds the two entries of the last
\* calculation, one more than is live.
C38_Witness ==
    /\ AutoSaveRegistered
    /\ ret.op = "undo"
    /\ ret.flag
    /\ file.kind = "table"
    /\ Len(file.rows) = 2
    /\ Len(history) = 1

\* C39: save_to_csv, get_history, get_last_calculation, can_undo, can_redo
\* and len leave the live entries, the undo stack and the redo stack as they
\* were, whether they return or raise.
C39_QueriesAreReadOnly ==
    [][ret'.op \in {"save_to_csv", "get_history", "get_last_calculation", "can_undo",
                    "can_redo", "len"}
         => UNCHANGED <<history, undo_stack, redo_stack>>]_vars

\* get_last_calculation has returned an entry of a store that has an undone
\* state and more to undo.
C39_Witness ==
    /\ ret.op = "get_last_calculation"
    /\ ret.flag
    /\ history # <<>>
    /\ redo_stack # <<>>
    /\ Len(undo_stack) >= 2

====
